---- MODULE Spec2Model ----
(***************************************************************************)
(* Model of EnhancedPDFIndexer (ocr_0.py): the chunker                     *)
(* (create_chunks_with_metadata), the relationship builder                 *)
(* (_build_relationships), the navigation graph (create_navigation_graph)  *)
(* and the context query (query_with_context).                             *)
(*                                                                         *)
(* Text is a sequence of atoms.  An atom is one character (" ", "\n", ".", *)
(* "(", ")", a digit) or one indivisible word ("Section", "paid", "---").  *)
(* The words are chosen so that no word is a substring of another word in  *)
(* lower case; containment of one atom sequence in another is then the     *)
(* same as containment of the character strings they spell.                *)
(* Optional[x] is a sequence: <<>> is None, <<x>> is the value x.          *)
(* Chunk ids are 0-based as in the code; chunk id i is chunks[i + 1].      *)
(***************************************************************************)
EXTENDS Integers, Sequences, FiniteSets, TLC

\* ------------------------------------------------------------------------
\* Bounds of the model
\* ------------------------------------------------------------------------
MaxPages == 3

MaxChunks == 7

\* ------------------------------------------------------------------------
\* Program constants
\* ------------------------------------------------------------------------
OverlapLookBack == 5

ChildLimit == 5

RelatedLimit == 10

GraphRefLimit == 5

QueryChildLimit == 3

QueryRelatedLimit == 3

\* ------------------------------------------------------------------------
\* Characters and character classes (Python re / str semantics)
\* ------------------------------------------------------------------------
None == <<>>

Some(x) == <<x>>

Whitespace == {" ", "\n"}

Terminators == {".", "!", "?"}

Digits == <<"0", "1", "2", "3", "4", "5", "6", "7", "8", "9">>

DigitChars == {Digits[k] : k \in 1..10}

UpperWords == {"Claims", "Section", "Chapter", "Part", "Page", "See"}

LowerWords == {"claims", "section", "chapter", "part", "page", "see", "paid",
               "refer", "to", "as", "mentioned", "in", "described"}

WordChars == UpperWords \cup LowerWords \cup DigitChars

ClosingChars == {".", "!", "?", "]", ")", "\""}

AllChars == WordChars \cup Whitespace \cup ClosingChars \cup {"(", "---"}

\* str.lower() on one atom
LowerChar(a) ==
    CASE a = "Claims" -> "claims"
      [] a = "Section" -> "section"
      [] a = "Chapter" -> "chapter"
      [] a = "Part" -> "part"
      [] a = "Page" -> "page"
      [] a = "See" -> "see"
      [] OTHER -> a

\* str.lower()
Lower(text) == [k \in 1..Len(text) |-> LowerChar(text[k])]

\* str.isupper() of the first character of an atom
IsUpper(a) == a \in UpperWords

\* Python slicing s[lo:hi] on 0-based indices, lo and hi already clamped >= 0
Slice(s, lo, hi) ==
    IF lo >= hi \/ lo >= Len(s) THEN <<>>
    ELSE SubSeq(s, lo + 1, IF hi > Len(s) THEN Len(s) ELSE hi)

\* s[:n]
Take(s, n) == Slice(s, 0, n)

\* set(s) of a list
Range(s) == {s[k] : k \in 1..Len(s)}

SetMin(S) == CHOOSE x \in S : \A y \in S : x <= y

SetMax(S) == CHOOSE x \in S : \A y \in S : x >= y

\* str.strip(): drop leading and trailing whitespace
Strip(text) ==
    LET nonws == {k \in 1..Len(text) : text[k] \notin Whitespace}
    IN  IF nonws = {} THEN <<>>
        ELSE LET lo == CHOOSE k \in nonws : \A m \in nonws : k <= m
                 hi == CHOOSE k \in nonws : \A m \in nonws : k >= m
             IN  SubSeq(text, lo, hi)

\* `needle in haystack` for strings
Contains(haystack, needle) ==
    \E p \in 1..(Len(haystack) - Len(needle) + 1) :
        SubSeq(haystack, p, p + Len(needle) - 1) = needle

\* str.count(sub): number of non-overlapping occurrences, scanning from p
RECURSIVE CountFrom(_, _, _)
CountFrom(text, sub, p) ==
    LET hits == {q \in p..(Len(text) - Len(sub) + 1) :
                    SubSeq(text, q, q + Len(sub) - 1) = sub}
    IN  IF hits = {} THEN 0
        ELSE 1 + CountFrom(text, sub,
                     (CHOOSE q \in hits : \A r \in hits : q <= r) + Len(sub))

Count(text, sub) == CountFrom(text, sub, 1)

\* " ".join(parts)
RECURSIVE Join(_)
Join(parts) ==
    IF Len(parts) = 0 THEN <<>>
    ELSE IF Len(parts) = 1 THEN parts[1]
    ELSE parts[1] \o <<" ">> \o Join(Tail(parts))

\* str(n) for n >= 0
RECURSIVE IntToText(_)
IntToText(n) ==
    IF n < 10 THEN <<Digits[n + 1]>>
    ELSE IntToText(n \div 10) \o <<Digits[(n % 10) + 1]>>

DigitValue(d) == (CHOOSE k \in 1..10 : Digits[k] = d) - 1

\* int(s) for a string of digits
RECURSIVE TextToInt(_)
TextToInt(s) ==
    IF Len(s) = 0 THEN 0
    ELSE 10 * TextToInt(SubSeq(s, 1, Len(s) - 1)) + DigitValue(s[Len(s)])

\* len(self.encoding.encode(text)): the subword tokenizer is an external
\* library; its length is taken as one token per non-blank atom, and one
\* token for a non-empty text that is all blank.
TokenCount(text) ==
    LET n == Cardinality({k \in 1..Len(text) : text[k] \notin Whitespace})
    IN  IF n = 0 /\ Len(text) > 0 THEN 1 ELSE n

\* ------------------------------------------------------------------------
\* Regular expressions.  A pattern is a sequence of items; an item matches
\* one atom of `set`, or (plus) a non-empty run of them, longest first with
\* backtracking, and may be the capture group.
\* ------------------------------------------------------------------------
Lit(s) == [set |-> s, plus |-> FALSE, cap |-> FALSE]

Plus(s) == [set |-> s, plus |-> TRUE, cap |-> FALSE]

Cap(s) == [set |-> s, plus |-> TRUE, cap |-> TRUE]

\* (?i)word
CI(word) == {a \in AllChars : LowerChar(a) = word}

NoMatch == <<>>

\* end of the maximal run of atoms of set starting at p
RunEnd(text, p, set) ==
    LET stops == {q \in p..Len(text) : text[q] \notin set}
    IN  IF stops = {} THEN Len(text) + 1
        ELSE CHOOSE q \in stops : \A r \in stops : q <= r

\* match items k.. of pat at position p; result <<end, capStart, capEnd>>.
\* A run takes the longest stretch after which the rest of the pattern
\* still matches.
RECURSIVE MatchItems(_, _, _, _, _, _)
MatchItems(pat, k, text, p, cs, ce) ==
    IF k > Len(pat) THEN <<p, cs, ce>>
    ELSE IF pat[k].plus
         THEN LET rest(q) == IF pat[k].cap
                             THEN MatchItems(pat, k + 1, text, q, p, q)
                             ELSE MatchItems(pat, k + 1, text, q, cs, ce)
                  ends == {q \in (p + 1)..RunEnd(text, p, pat[k].set) :
                              rest(q) # NoMatch}
              IN  IF ends = {} THEN NoMatch
                  ELSE rest(CHOOSE q \in ends : \A r \in ends : q >= r)
         ELSE IF p <= Len(text) /\ text[p] \in pat[k].set
              THEN MatchItems(pat, k + 1, text, p + 1, cs, ce)
              ELSE NoMatch

HasGroup(pat) == \E k \in 1..Len(pat) : pat[k].cap

\* the string re.findall reports for a match at p: the group, else the match
MatchAt(pat, text, p) ==
    LET m == MatchItems(pat, 1, text, p, 0, 0)
    IN  IF m = NoMatch THEN NoMatch
        ELSE IF HasGroup(pat) THEN <<m[1], SubSeq(text, m[2], m[3] - 1)>>
        ELSE <<m[1], SubSeq(text, p, m[1] - 1)>>

\* positions >= p where pat matches
MatchStarts(pat, text, p) == {q \in p..Len(text) : MatchAt(pat, text, q) # NoMatch}

\* set(re.findall(pat, text)): non-overlapping matches, left to right
RECURSIVE FindAll(_, _, _)
FindAll(pat, text, p) ==
    LET starts == MatchStarts(pat, text, p)
    IN  IF starts = {} THEN {}
        ELSE LET m == MatchAt(pat, text, SetMin(starts))
             IN  {m[2]} \cup FindAll(pat, text, m[1])

\* re.search(pat, text): the leftmost match, or NoMatch
Search(pat, text) ==
    LET starts == MatchStarts(pat, text, 1)
    IN  IF starts = {} THEN NoMatch ELSE MatchAt(pat, text, SetMin(starts))

\* ------------------------------------------------------------------------
\* _extract_references
\* ------------------------------------------------------------------------
ReferencePatterns ==
    << <<Lit(CI("see")), Plus(Whitespace),
         Lit(CI("page") \cup CI("section") \cup CI("chapter") \cup CI("part")),
         Plus(Whitespace), Cap(WordChars)>>,
       <<Lit(CI("refer")), Plus(Whitespace), Lit(CI("to")), Plus(Whitespace),
         Cap(WordChars)>>,
       <<Lit(CI("as")), Plus(Whitespace), Lit(CI("mentioned")),
         Plus(Whitespace), Lit(CI("in")), Plus(Whitespace), Cap(WordChars)>>,
       <<Lit(CI("described")), Plus(Whitespace), Lit(CI("in")),
         Plus(Whitespace), Cap(WordChars)>>,
       <<Lit({"("}), Lit({"see"}), Plus(Whitespace),
         Cap(AllChars \ {")"}), Lit({")"})>>,
       <<Lit({"Part"}), Plus(Whitespace), Plus(DigitChars)>>,
       <<Lit({"Section"}), Plus(Whitespace), Plus(DigitChars \cup {"."})>>,
       <<Lit({"Chapter"}), Plus(Whitespace), Plus(DigitChars)>> >>

\* list(set(references)): the order of the list is the set's iteration
\* order, which the program does not control; the value is kept as a set.
_extract_references(text) ==
    UNION {FindAll(ReferencePatterns[k], text, 1) :
             k \in 1..Len(ReferencePatterns)}

\* ------------------------------------------------------------------------
\* create_chunks_with_metadata: helpers
\* ------------------------------------------------------------------------
\* f"\n--- Page {page_num} ---\n{page_text}"
PageBlock(page_num, page_text) ==
    <<"\n", "---", " ", "Page", " ">> \o IntToText(page_num)
        \o <<" ", "---", "\n">> \o page_text

\* r'--- Page (\d+) ---'
PageMarkerPattern ==
    <<Lit({"---"}), Lit({" "}), Lit({"Page"}), Lit({" "}), Cap(DigitChars),
      Lit({" "}), Lit({"---"})>>

\* re.split(r'(?<=[.!?])\s+', text), for the piece that begins at start
RECURSIVE SplitFrom(_, _)
SplitFrom(text, start) ==
    LET cuts == {p \in start..Len(text) :
                    p > 1 /\ text[p - 1] \in Terminators /\ text[p] \in Whitespace}
    IN  IF cuts = {} THEN <<SubSeq(text, start, Len(text))>>
        ELSE LET p == SetMin(cuts)
             IN  <<SubSeq(text, start, p - 1)>>
                     \o SplitFrom(text, RunEnd(text, p, Whitespace))

SplitSentences(text) == SplitFrom(text, 1)

\* the fold of one page's section markers into (section, subsection)
RECURSIVE TrackSections(_, _, _)
TrackSections(markers, section, subsection) ==
    IF Len(markers) = 0 THEN <<section, subsection>>
    ELSE LET m == Head(markers)
         IN  IF m.hierarchy_level <= 2
             THEN TrackSections(Tail(markers), Some(m.text), None)
             ELSE IF m.hierarchy_level = 3
                  THEN TrackSections(Tail(markers), section, Some(m.text))
                  ELSE TrackSections(Tail(markers), section, subsection)

\* round(num / den * 100, 2) in hundredths, ties to even
Percentage(num, den) ==
    LET q == (num * 10000) \div den
        r == (num * 10000) % den
    IN  IF 2 * r > den \/ (2 * r = den /\ q % 2 = 1) THEN q + 1 ELSE q

_build_outline_path(section, subsection) == section \o subsection

\* 3 if subsection else (2 if section else 1)
HierarchyLevel(section, subsection) ==
    IF subsection # None THEN 3 ELSE IF section # None THEN 2 ELSE 1

\* position_in_doc is the fraction pos[1] / pos[2]; the md5 hash of the text
\* is a function of content and is not kept.
_create_chunk(chunk_id, text, pages, section, subsection, pos, paragraph_range) ==
    [chunk_id |-> chunk_id,
     content |-> text,
     token_count |-> TokenCount(text),
     location_metadata |->
        [page_numbers |-> pages,
         start_page |-> IF pages # {} THEN SetMin(pages) ELSE 0,
         end_page |-> IF pages # {} THEN SetMax(pages) ELSE 0,
         section |-> section,
         subsection |-> subsection,
         paragraph_range |-> paragraph_range,
         position |->
            [percentage_in_doc |-> Percentage(pos[1], pos[2]),
             is_beginning |-> 10 * pos[1] < pos[2],
             is_middle |-> pos[2] <= 10 * pos[1] /\ 10 * pos[1] <= 9 * pos[2],
             is_end |-> 10 * pos[1] > 9 * pos[2]],
         hierarchy_level |-> HierarchyLevel(section, subsection),
         outline_path |-> _build_outline_path(section, subsection)]]

\* variant: the id is not advanced after a chunk is emitted
NextChunkIdStuck(chunk_id) == chunk_id

\* chunk_id += 1
NextChunkId(chunk_id) == chunk_id + 1

\* variant: the page of the marker replaces the set (current_pages = {...})
AddPageReplace(pages, page_marker) ==
    IF page_marker # NoMatch THEN {TextToInt(page_marker[2])} ELSE pages

\* if page_marker: current_pages.add(int(page_marker.group(1))); the set is
\* never reset
AddPage(pages, page_marker) ==
    IF page_marker # NoMatch THEN pages \cup {TextToInt(page_marker[2])}
    ELSE pages

\* variant: the slice stops before the sentence that closed the chunk
OverlapSentencesDropLast(sentences, i) ==
    Slice(sentences, IF i - OverlapLookBack > 0 THEN i - OverlapLookBack ELSE 0,
          i)

\* sentences[max(0, i - 5):i + 1]
OverlapSentences(sentences, i) ==
    Slice(sentences, IF i - OverlapLookBack > 0 THEN i - OverlapLookBack ELSE 0,
          i + 1)

\* ------------------------------------------------------------------------
\* _build_relationships: helpers.  cs is the chunk list, i a 0-based index.
\* ------------------------------------------------------------------------
Level(cs, j) == cs[j + 1].location_metadata.hierarchy_level

PrevId(i) == IF i > 0 THEN Some(i - 1) ELSE None

\* variant: the last link is dropped one chunk early
NextIdShort(i, n) == IF i < n - 2 THEN Some(i + 1) ELSE None

NextId(i, n) == IF i < n - 1 THEN Some(i + 1) ELSE None

\* for j, other in enumerate(chunks): if i != j and same section
RECURSIVE RelatedFrom(_, _, _)
RelatedFrom(cs, i, j) ==
    IF j >= Len(cs) THEN <<>>
    ELSE IF i # j /\ cs[j + 1].location_metadata.section
                       = cs[i + 1].location_metadata.section
         THEN <<j>> \o RelatedFrom(cs, i, j + 1)
         ELSE RelatedFrom(cs, i, j + 1)

Related(cs, i) ==
    IF cs[i + 1].location_metadata.section # None
    THEN RelatedFrom(cs, i, 0) ELSE <<>>

\* for j in range(i - 1, -1, -1): first j with a lower level
RECURSIVE ParentScan(_, _, _)
RECURSIVE ParentScanSameLevel(_, _, _)
\* variant: a chunk of the same level is accepted as parent
ParentScanSameLevel(cs, j, current_level) ==
    IF j < 0 THEN None
    ELSE IF cs[j + 1].location_metadata.hierarchy_level <= current_level THEN Some(j)
    ELSE ParentScanSameLevel(cs, j - 1, current_level)

ParentScan(cs, j, current_level) ==
    IF j < 0 THEN None
    ELSE IF Level(cs, j) < current_level THEN Some(j)
    ELSE ParentScan(cs, j - 1, current_level)

\* for j in range(i + 1, len(chunks)): collect while the level is higher
RECURSIVE ChildScan(_, _, _)
RECURSIVE ChildScanNoBreak(_, _, _)
\* variant: the scan skips a chunk of same or lower level and goes on
ChildScanNoBreak(cs, j, current_level) ==
    IF j >= Len(cs) THEN <<>>
    ELSE IF cs[j + 1].location_metadata.hierarchy_level > current_level
         THEN <<j>> \o ChildScanNoBreak(cs, j + 1, current_level)
         ELSE ChildScanNoBreak(cs, j + 1, current_level)

ChildScan(cs, j, current_level) ==
    IF j >= Len(cs) THEN <<>>
    ELSE IF Level(cs, j) > current_level
         THEN <<j>> \o ChildScan(cs, j + 1, current_level)
         ELSE <<>>

\* variant: the slice keeps one id fewer
ChildIdsShort(cs, i) == Take(ChildScan(cs, i + 1, Level(cs, i)), ChildLimit - 1)

\* child_ids[:5]
ChildIds(cs, i) == Take(ChildScan(cs, i + 1, Level(cs, i)), ChildLimit)

\* the relationship_metadata of chunk i after the first pass
Pass1Metadata(cs, i) ==
    LET content == Strip(cs[i + 1].content)
        prev_id == PrevId(i)
        next_id == NextId(i, Len(cs))
    IN  [chunk_id |-> i,
         previous_chunk_id |-> prev_id,
         next_chunk_id |-> next_id,
         parent_chunk_id |-> ParentScan(cs, i - 1, Level(cs, i)),
         child_chunk_ids |-> ChildIds(cs, i),
         related_chunk_ids |-> Take(Related(cs, i), RelatedLimit),
         references_to |-> _extract_references(cs[i + 1].content),
         referenced_by_ids |-> <<>>,
         continuation_of |->
            IF ~IsUpper(content[1]) /\ prev_id # None THEN prev_id ELSE None,
         continues_in |->
            IF content[Len(content)] \notin ClosingChars /\ next_id # None
            THEN next_id ELSE None]

\* variant: the comparison keeps the case of both strings
RefMatchesCaseSensitive(ref, content, i, j) == Contains(content, ref) /\ i # j

\* ref.lower() in other['content'].lower() and i != j
RefMatches(ref, content, i, j) ==
    Contains(Lower(content), Lower(ref)) /\ i # j

\* how often the second pass appends i to chunk j's referenced_by_ids
AppendCount(cs, i, j) ==
    Cardinality({ref \in cs[i + 1].relationship_metadata.references_to :
                    RefMatches(ref, cs[j + 1].content, i, j)})

\* variant: `return chunks` inside the outer loop of the second pass
AfterPass2EarlyReturn(i, n) == "returned"

\* the outer loop of the second pass goes on to chunk i + 1, and
\* _build_relationships returns after the last chunk
AfterPass2(i, n) == IF i + 1 < n THEN "pass2" ELSE "returned"

Repeat(x, n) == [k \in 1..n |-> x]

\* ------------------------------------------------------------------------
\* create_navigation_graph: helpers
\* ------------------------------------------------------------------------
\* variant: every entry of referenced_by_ids gets an edge
EdgesOfUncapped(rel) ==
    (IF rel.next_chunk_id # None
     THEN <<[from |-> rel.chunk_id, to |-> rel.next_chunk_id[1],
             type |-> "sequential"]>>
     ELSE <<>>)
    \o (IF rel.parent_chunk_id # None
        THEN <<[from |-> rel.parent_chunk_id[1], to |-> rel.chunk_id,
                type |-> "parent-child"]>>
        ELSE <<>>)
    \o [k \in 1..Len(rel.referenced_by_ids) |->
          [from |-> rel.chunk_id, to |-> rel.referenced_by_ids[k],
           type |-> "reference"]]

\* the edges appended for one chunk, in the order of the code
EdgesOf(rel) ==
    (IF rel.next_chunk_id # None
     THEN <<[from |-> rel.chunk_id, to |-> rel.next_chunk_id[1],
             type |-> "sequential"]>>
     ELSE <<>>)
    \o (IF rel.parent_chunk_id # None
        THEN <<[from |-> rel.parent_chunk_id[1], to |-> rel.chunk_id,
                type |-> "parent-child"]>>
        ELSE <<>>)
    \o [k \in 1..Len(Take(rel.referenced_by_ids, GraphRefLimit)) |->
          [from |-> rel.chunk_id, to |-> rel.referenced_by_ids[k],
           type |-> "reference"]]

RECURSIVE GraphEdges(_, _)
GraphEdges(cs, k) ==
    IF k > Len(cs) THEN <<>>
    ELSE EdgesOf(cs[k].relationship_metadata) \o GraphEdges(cs, k + 1)

GraphNode(chunk) ==
    [id |-> chunk.chunk_id,
     section |-> chunk.location_metadata.section,
     pages |-> chunk.location_metadata.page_numbers,
     level |-> chunk.location_metadata.hierarchy_level]

\* chunk['location_metadata']['section'] or 'No Section'
SectionKey(chunk) ==
    IF chunk.location_metadata.section # None
    THEN chunk.location_metadata.section[1] ELSE "No Section"

\* graph['sections']: section key -> chunk ids in list order
GraphSections(cs) ==
    [key \in {SectionKey(cs[k]) : k \in 1..Len(cs)} |->
        LET members == SelectSeq([k \in 1..Len(cs) |-> k],
                                 LAMBDA k : SectionKey(cs[k]) = key)
        IN  [m \in 1..Len(members) |-> cs[members[m]].chunk_id]]

\* ------------------------------------------------------------------------
\* query_with_context: helpers
\* ------------------------------------------------------------------------
ContextTypes == {"sequential", "hierarchical", "related", "all"}

\* chunks[chunk_id] succeeds for -len <= chunk_id < len
InRange(n, chunk_id) == -n <= chunk_id /\ chunk_id < n

\* the 0-based position that chunks[chunk_id] denotes
ListIndex(n, chunk_id) == IF chunk_id < 0 THEN n + chunk_id ELSE chunk_id

\* append each id of ids that is not yet visited; acc = <<result, visited>>
RECURSIVE AddUnvisited(_, _)
AddUnvisited(acc, ids) ==
    IF Len(ids) = 0 THEN acc
    ELSE IF Head(ids) \in acc[2] THEN AddUnvisited(acc, Tail(ids))
    ELSE AddUnvisited(<<Append(acc[1], Head(ids)), acc[2] \cup {Head(ids)}>>,
                      Tail(ids))

\* result.sort(key=lambda x: x['chunk_id']): stable insertion by key
RECURSIVE InsertByKey(_, _, _)
InsertByKey(sorted, x, cs) ==
    IF Len(sorted) = 0 THEN <<x>>
    ELSE IF cs[x + 1].chunk_id < cs[Head(sorted) + 1].chunk_id
         THEN <<x>> \o sorted
         ELSE <<Head(sorted)>> \o InsertByKey(Tail(sorted), x, cs)

\* variant: the list is returned in the order it was collected
SortByChunkIdSkipped(positions, cs) == positions

RECURSIVE SortByChunkId(_, _)
SortByChunkId(positions, cs) ==
    IF Len(positions) = 0 THEN <<>>
    ELSE InsertByKey(SortByChunkId(SubSeq(positions, 1, Len(positions) - 1), cs),
                     positions[Len(positions)], cs)

\* the list positions of the chunks in the returned list, before the sort
ContextPositions(cs, chunk_id, context_type) ==
    LET rel == cs[ListIndex(Len(cs), chunk_id) + 1].relationship_metadata
        start == <<<<ListIndex(Len(cs), chunk_id)>>, {chunk_id}>>
        seq == IF context_type \in {"sequential", "all"}
               THEN AddUnvisited(AddUnvisited(start, rel.previous_chunk_id),
                                 rel.next_chunk_id)
               ELSE start
        hier == IF context_type \in {"hierarchical", "all"}
                THEN AddUnvisited(AddUnvisited(seq, rel.parent_chunk_id),
                                  Take(rel.child_chunk_ids, QueryChildLimit))
                ELSE seq
        rela == IF context_type \in {"related", "all"}
                THEN AddUnvisited(hier, Take(rel.related_chunk_ids,
                                             QueryRelatedLimit))
                ELSE hier
    IN  rela[1]

\* variant: the result list is the chunk list itself (result = chunks), so
\* the context chunks are appended to the index
ChunksAfterQueryAliased(cs, positions) ==
    cs \o [k \in 1..(Len(positions) - 1) |-> cs[positions[k + 1] + 1]]

\* index['chunks'] after the call: result = [target_chunk] is a list of its
\* own, and the appends and the sort act on it alone
ChunksAfterQuery(cs, positions) == cs

\* the chunk ids of the returned list
ContextResult(cs, chunk_id, context_type) ==
    LET sorted == SortByChunkId(ContextPositions(cs, chunk_id, context_type), cs)
    IN  [k \in 1..Len(sorted) |-> cs[sorted[k] + 1].chunk_id]

\* ------------------------------------------------------------------------
\* Inputs
\* ------------------------------------------------------------------------
\* EnhancedPDFIndexer(chunk_size=...): 1000 is the default
ChunkSizes == {2, 12, 52, 1000}

Marker(type, text, line_number, hierarchy_level) ==
    [type |-> type, text |-> text, line_number |-> line_number,
     hierarchy_level |-> hierarchy_level]

\* pages as extract_with_location produces them: the text of the page and
\* the section markers _detect_sections finds in it
PageKinds ==
    { [text |-> <<>>, sections |-> <<>>],
      [text |-> <<" ", "\n">>, sections |-> <<>>],
      [text |-> <<"Chapter", " ", "1", "\n",
                  "Claims", " ", "paid", ".", " ",
                  "Claims", " ", "paid", " ",
                  "(", "see", " ", "Section", " ", "2", ".", "1", ")", ".">>,
       sections |-> <<Marker("chapter", "Chapter 1", 0, 2)>>],
      [text |-> <<"2", ".", "1", ".", " ", "claims", "\n",
                  "Section", " ", "2", ".", "1", " ", "paid", ".", " ",
                  "claims", " ", "paid", ".", "\n", "\n",
                  "refer", " ", "to", " ", "Chapter", " ", "1">>,
       sections |-> <<Marker("section", "2.1. claims", 0, 3)>>],
      [text |-> <<"Part", " ", "2", "\n", "Claims", " ", "paid", "\n",
                  "See", " ", "Chapter", " ", "1", ".", " ",
                  "claims", " ", "paid", ".", " ">>,
       sections |-> <<Marker("part", "Part 2", 0, 1),
                      Marker("heading", "Claims paid", 1, 4)>>] }

\* pdf_data['pages'] for a document of n pages, numbered from 1
Documents ==
    UNION {{[k \in 1..n |-> [page_number |-> k, text |-> f[k].text,
                             sections |-> f[k].sections]] :
              f \in [1..n -> PageKinds]} : n \in 0..MaxPages}

\* (section, subsection, content) of the chunks handed to
\* _build_relationships directly
ChunkKinds ==
    { [section |-> None, subsection |-> None,
       content |-> <<"Claims", " ", "paid", " ",
                     "(", "see", " ", "Section", " ", "2", ".", "1", ")", ".",
                     " ", "See", " ", "Part", " ", "2", ".">>],
      [section |-> Some("Chapter 1"), subsection |-> None,
       content |-> <<"Section", " ", "2", ".", "1", " ", "paid", ".", " ",
                     "refer", " ", "to", " ", "Part", " ", "2">>],
      [section |-> Some("Chapter 2"), subsection |-> Some("2.1. claims"),
       content |-> <<"claims", " ", "paid", " ", "as", " ", "mentioned", " ",
                     "in", " ", "section", " ", "2", ".", "1", ".">>] }

ChunkLists ==
    UNION {{[k \in 1..n |->
               _create_chunk(k - 1, f[k].content, {}, f[k].section,
                             f[k].subsection, <<1, 1>>, <<0, 0>>)] :
              f \in [1..n -> ChunkKinds]} : n \in 0..MaxChunks}

\* ------------------------------------------------------------------------
\* State
\* ------------------------------------------------------------------------
VARIABLES
    pc,                  \* position in process_document
    pdf_data,            \* the pages given to create_chunks_with_metadata
    chunk_size,          \* self.chunk_size
    pages_done,          \* pages consumed by the first loop
    full_text,
    current_section,
    current_subsection,
    sentences,
    i,                   \* loop index of the running loop
    current_chunk_text,
    current_pages,
    paragraph_counter,
    chunk_id,
    chunks,
    graph,               \* the navigation graph, None until built
    query,               \* arguments of the last query_with_context call
    result,              \* chunk ids of the list it returned
    raised               \* the exception raised, None if none

vars == <<pc, pdf_data, chunk_size, pages_done, full_text, current_section,
          current_subsection, sentences, i, current_chunk_text, current_pages,
          paragraph_counter, chunk_id, chunks, graph, query, result, raised>>

chunkerVars == <<pages_done, full_text, current_section, current_subsection,
                 sentences, current_chunk_text, current_pages,
                 paragraph_counter, chunk_id>>

queryVars == <<query, result>>

\* locals of create_chunks_with_metadata on entry
ChunkerEntry ==
    /\ pages_done = 0
    /\ full_text = <<>>
    /\ current_section = None
    /\ current_subsection = None
    /\ sentences = <<>>
    /\ i = 0
    /\ current_chunk_text = <<>>
    /\ current_pages = {}
    /\ paragraph_counter = 0
    /\ chunk_id = 0

Init ==
    /\ pc = "fold"
    /\ pdf_data \in Documents
    /\ chunk_size \in ChunkSizes
    /\ ChunkerEntry
    /\ chunks = <<>>
    /\ graph = None
    /\ query = None
    /\ result = None
    /\ raised = None

\* _build_relationships called on a chunk list of its own
InitRel ==
    /\ chunks \in ChunkLists
    /\ pc = IF Len(chunks) = 0 THEN "returned" ELSE "pass1"
    /\ pdf_data = <<>>
    /\ chunk_size = 1000
    /\ ChunkerEntry
    /\ graph = None
    /\ query = None
    /\ result = None
    /\ raised = None

\* ------------------------------------------------------------------------
\* create_chunks_with_metadata
\* ------------------------------------------------------------------------
\* one iteration of `for page_data in pdf_data['pages']`
FoldPage ==
    /\ pc = "fold"
    /\ pages_done < Len(pdf_data)
    /\ LET page_data == pdf_data[pages_done + 1]
           tracked == TrackSections(page_data.sections, current_section,
                                    current_subsection)
       IN  /\ full_text' = full_text
                 \o PageBlock(page_data.page_number, page_data.text)
           /\ current_section' = tracked[1]
           /\ current_subsection' = tracked[2]
    /\ pages_done' = pages_done + 1
    /\ UNCHANGED <<pc, pdf_data, chunk_size, sentences, i, current_chunk_text,
                   current_pages, paragraph_counter, chunk_id, chunks, graph,
                   queryVars, raised>>

\* sentences = re.split(...) and the initialisation of the second loop
SplitText ==
    /\ pc = "fold"
    /\ pages_done = Len(pdf_data)
    /\ sentences' = SplitSentences(full_text)
    /\ current_chunk_text' = <<>>
    /\ current_pages' = {}
    /\ paragraph_counter' = 0
    /\ i' = 0
    /\ pc' = "loop"
    /\ UNCHANGED <<pdf_data, chunk_size, pages_done, full_text,
                   current_section, current_subsection, chunk_id, chunks,
                   graph, queryVars, raised>>

\* one iteration of `for i, sentence in enumerate(sentences)`
SentenceStep ==
    /\ pc = "loop"
    /\ i < Len(sentences)
    /\ LET sentence == sentences[i + 1]
           page_marker == Search(PageMarkerPattern, sentence)
           pages == AddPage(current_pages, page_marker)
           text == current_chunk_text \o <<" ">> \o sentence
           current_tokens == TokenCount(text)
       IN  /\ current_pages' = pages
           /\ IF current_tokens >= chunk_size
              THEN LET seed == Join(OverlapSentences(sentences, i))
                   IN  /\ chunks' = Append(chunks,
                              _create_chunk(chunk_id, Strip(text), pages,
                                  current_section, current_subsection,
                                  <<i, Len(sentences)>>,
                                  <<paragraph_counter, paragraph_counter
                                      + Count(text, <<"\n", "\n">>)>>))
                       /\ current_chunk_text' = seed
                       /\ chunk_id' = NextChunkId(chunk_id)
                       /\ paragraph_counter' = paragraph_counter
                              + Count(seed, <<"\n", "\n">>)
              ELSE /\ current_chunk_text' = text
                   /\ UNCHANGED <<chunks, chunk_id, paragraph_counter>>
    /\ i' = i + 1
    /\ UNCHANGED <<pc, pdf_data, chunk_size, pages_done, full_text,
                   current_section, current_subsection, sentences, graph,
                   queryVars, raised>>

\* `if current_chunk_text.strip()`: the final chunk, then the call of
\* _build_relationships
FinalChunk ==
    /\ pc = "loop"
    /\ i = Len(sentences)
    /\ chunks' =
          IF Strip(current_chunk_text) # <<>>
          THEN Append(chunks,
                  _create_chunk(chunk_id, Strip(current_chunk_text),
                      current_pages, current_section, current_subsection,
                      <<1, 1>>,
                      <<paragraph_counter, paragraph_counter
                          + Count(current_chunk_text, <<"\n", "\n">>)>>))
          ELSE chunks
    /\ i' = 0
    /\ pc' = IF Len(chunks') = 0 THEN "returned" ELSE "pass1"
    /\ UNCHANGED <<pdf_data, chunk_size, chunkerVars, graph, queryVars,
                   raised>>

\* ------------------------------------------------------------------------
\* _build_relationships
\* ------------------------------------------------------------------------
\* one iteration of the first loop; content.strip()[0] raises IndexError on
\* an empty content
Pass1Step ==
    /\ pc = "pass1"
    /\ i < Len(chunks)
    /\ IF Strip(chunks[i + 1].content) = <<>>
       THEN /\ pc' = "error"
            /\ raised' = Some("IndexError")
            /\ UNCHANGED <<chunks, i>>
       ELSE /\ chunks' = [chunks EXCEPT ![i + 1] =
                   @ @@ [relationship_metadata |-> Pass1Metadata(chunks, i)]]
            /\ i' = IF i + 1 < Len(chunks) THEN i + 1 ELSE 0
            /\ pc' = IF i + 1 < Len(chunks) THEN "pass1" ELSE "pass2"
            /\ UNCHANGED raised
    /\ UNCHANGED <<pdf_data, chunk_size, chunkerVars, graph, queryVars>>

\* one iteration of the outer loop of the second pass: chunk i is appended
\* to the referenced_by_ids of every chunk one of its references occurs in
Pass2Step ==
    /\ pc = "pass2"
    /\ i < Len(chunks)
    /\ chunks' = [j1 \in 1..Len(chunks) |->
          [chunks[j1] EXCEPT !.relationship_metadata.referenced_by_ids =
              @ \o Repeat(i, AppendCount(chunks, i, j1 - 1))]]
    /\ i' = IF i + 1 < Len(chunks) THEN i + 1 ELSE 0
    /\ pc' = AfterPass2(i, Len(chunks))
    /\ UNCHANGED <<pdf_data, chunk_size, chunkerVars, graph, queryVars,
                   raised>>

\* ------------------------------------------------------------------------
\* create_navigation_graph, called by process_document on the chunks
\* ------------------------------------------------------------------------
create_navigation_graph ==
    /\ pc = "returned"
    /\ graph' = Some([nodes |-> [k \in 1..Len(chunks) |-> GraphNode(chunks[k])],
                      edges |-> GraphEdges(chunks, 1),
                      sections |-> GraphSections(chunks)])
    /\ pc' = "indexed"
    /\ UNCHANGED <<pdf_data, chunk_size, chunkerVars, i, chunks, queryVars,
                   raised>>

\* ------------------------------------------------------------------------
\* query_with_context on the finished index.  The call followed is the first
\* one on the index: it writes nothing that a call reads, so every later call
\* starts from the same index.
\* ------------------------------------------------------------------------
query_with_context ==
    /\ pc = "indexed"
    /\ query = None
    /\ \E id \in -(Len(chunks) + 1)..(Len(chunks) + 1), context_type \in ContextTypes :
          /\ query' = Some([chunk_id |-> id, context_type |-> context_type])
          /\ IF InRange(Len(chunks), id)
             THEN /\ result' = Some(ContextResult(chunks, id, context_type))
                  /\ raised' = None
                  /\ chunks' = ChunksAfterQuery(chunks,
                                   ContextPositions(chunks, id, context_type))
             ELSE /\ result' = None
                  /\ raised' = Some("IndexError")
                  /\ UNCHANGED chunks
    /\ UNCHANGED <<pc, pdf_data, chunk_size, chunkerVars, i, graph>>

Next ==
    \/ FoldPage
    \/ SplitText
    \/ SentenceStep
    \/ FinalChunk
    \/ Pass1Step
    \/ Pass2Step
    \/ create_navigation_graph
    \/ query_with_context

Spec == Init /\ [][Next]_vars

NextRel ==
    \/ Pass1Step
    \/ Pass2Step
    \/ create_navigation_graph
    \/ query_with_context

SpecRel == InitRel /\ [][NextRel]_vars

\* _build_relationships and create_navigation_graph alone
NextBuild ==
    \/ Pass1Step
    \/ Pass2Step
    \/ create_navigation_graph

SpecBuild == InitRel /\ [][NextBuild]_vars

\* ------------------------------------------------------------------------
\* Properties
\* ------------------------------------------------------------------------
\* create_chunks_with_metadata / _build_relationships has returned
Returned == pc \in {"returned", "indexed"}

N == Len(chunks)

Rel(j) == chunks[j + 1].relationship_metadata

LevelOf(j) == chunks[j + 1].location_metadata.hierarchy_level

\* C1: in the list create_chunks_with_metadata returns, the chunk at list
\* index k has chunk_id k and relationship_metadata.chunk_id k, so the ids
\* are exactly 0..N-1 in emission order.
C1_DenseChunkIds ==
    Returned =>
        \A k \in 0..(N - 1) :
            /\ chunks[k + 1].chunk_id = k
            /\ Rel(k).chunk_id = k

C1_Witness ==
    /\ pc = "returned"
    /\ pdf_data # <<>>
    /\ N >= 3

\* C2: after _build_relationships, chunk a has next_chunk_id b exactly when
\* chunk b has previous_chunk_id a; the first chunk has no previous and the
\* last chunk has no next.
C2_SequentialLinksConsistent ==
    Returned =>
        /\ \A a \in 0..(N - 1), b \in 0..(N - 1) :
              (Rel(a).next_chunk_id = <<b>>) <=> (Rel(b).previous_chunk_id = <<a>>)
        /\ N > 0 => /\ Rel(0).previous_chunk_id = None
                    /\ Rel(N - 1).next_chunk_id = None

C2_Witness ==
    /\ Returned
    /\ N >= 3
    /\ Rel(1).next_chunk_id = <<2>>
    /\ Rel(2).previous_chunk_id = <<1>>

\* C3: parent_chunk_id of a chunk is the nearest preceding chunk of strictly
\* lower hierarchy level, and None exactly when no preceding chunk has a
\* strictly lower level; a parent's level is below its child's.
C3_ParentIsNearestLowerLevel ==
    Returned =>
        \A c \in 0..(N - 1) :
            LET lower == {j \in 0..(c - 1) : LevelOf(j) < LevelOf(c)}
            IN  /\ (lower = {}) <=> (Rel(c).parent_chunk_id = None)
                /\ lower # {} =>
                      /\ Rel(c).parent_chunk_id[1] \in lower
                      /\ \A j \in lower : j <= Rel(c).parent_chunk_id[1]
                      /\ LevelOf(Rel(c).parent_chunk_id[1]) < LevelOf(c)

\* a parent that is neither the chunk just before nor the lowest-level one
C3_Witness ==
    /\ Returned
    /\ \E c \in 0..(N - 1) :
          /\ Rel(c).parent_chunk_id # None
          /\ Rel(c).parent_chunk_id[1] < c - 1
          /\ \E j \in 0..(Rel(c).parent_chunk_id[1] - 1) :
                LevelOf(j) < LevelOf(Rel(c).parent_chunk_id[1])

\* the chunks after c up to, not including, the first one whose level is
\* not above c's
RunAfter(c) ==
    LET stops == {j \in (c + 1)..(N - 1) : LevelOf(j) <= LevelOf(c)}
        end == IF stops = {} THEN N ELSE SetMin(stops)
    IN  [k \in 1..(end - c - 1) |-> c + k]

\* C4: child_chunk_ids of chunk c is the run c+1, c+2, ... of immediately
\* following chunks of strictly greater level, ending before the first
\* following chunk of same or lower level, cut to its first 5 entries.
C4_ChildrenAreContiguousRun ==
    Returned =>
        \A c \in 0..(N - 1) :
            LET run == RunAfter(c)
            IN  Rel(c).child_chunk_ids
                    = [k \in 1..(IF Len(run) > 5 THEN 5 ELSE Len(run)) |-> run[k]]

\* one chunk whose run is cut at 5, one whose run ends at a chunk that has
\* deeper chunks behind it
C4_Witness ==
    /\ Returned
    /\ \E c \in 0..(N - 1) :
          Len(RunAfter(c)) > 5 /\ Len(Rel(c).child_chunk_ids) = 5
    /\ \E c \in 0..(N - 1), j \in 0..(N - 1) :
          /\ Len(RunAfter(c)) >= 1
          /\ j > c + Len(RunAfter(c))
          /\ LevelOf(j) > LevelOf(c)

FirstThree(s) == {s[k] : k \in 1..(IF Len(s) > 3 THEN 3 ELSE Len(s))}

SequentialContext(t) ==
    Range(Rel(t).previous_chunk_id) \cup Range(Rel(t).next_chunk_id)

HierarchicalContext(t) ==
    Range(Rel(t).parent_chunk_id) \cup FirstThree(Rel(t).child_chunk_ids)

RelatedContext(t) == FirstThree(Rel(t).related_chunk_ids)

ExpectedContext(t, mode) ==
    {t} \cup
    CASE mode = "sequential" -> SequentialContext(t)
      [] mode = "hierarchical" -> HierarchicalContext(t)
      [] mode = "related" -> RelatedContext(t)
      [] mode = "all" -> SequentialContext(t) \cup HierarchicalContext(t)
                             \cup RelatedContext(t)

\* a call of query_with_context with the id of an existing chunk
ValidQuery == query # None /\ query[1].chunk_id \in 0..(N - 1)

\* C5: for an existing chunk id and any mode, query_with_context returns a
\* list strictly ascending by chunk_id whose ids are the target plus the
\* neighbours of the mode: previous and next; parent and the first 3
\* children; the first 3 related; or, for mode all, the union of the three.
C5_QueryContext ==
    ValidQuery =>
        /\ raised = None
        /\ result # None
        /\ \A k \in 1..(Len(result[1]) - 1) : result[1][k] < result[1][k + 1]
        /\ Range(result[1])
              = ExpectedContext(query[1].chunk_id, query[1].context_type)

\* a hierarchical query on a chunk with a parent and more than 3 children,
\* and a query in mode all where the three contexts overlap
C5_Witness ==
    /\ ValidQuery
    /\ result # None
    /\ \/ /\ query[1].context_type = "hierarchical"
          /\ Rel(query[1].chunk_id).parent_chunk_id # None
          /\ Len(Rel(query[1].chunk_id).child_chunk_ids) > 3
          /\ Len(result[1]) = 5
       \/ /\ query[1].context_type = "all"
          /\ Len(Rel(query[1].chunk_id).related_chunk_ids) > 3
          /\ SequentialContext(query[1].chunk_id)
                \cap RelatedContext(query[1].chunk_id) # {}
          /\ Len(result[1]) >= 4

\* C6: query_with_context raises an out-of-range error and returns nothing
\* for every chunk_id outside 0..N-1, negative ids included.
C6_OutOfRangeAlwaysFails ==
    (query # None /\ query[1].chunk_id \notin 0..(N - 1)) =>
        /\ raised = Some("IndexError")
        /\ result = None

\* the page marker the chunker writes before page p
MarkerOf(p) == <<"---", " ", "Page", " ">> \o IntToText(p) \o <<" ", "---">>

\* the last page begun within the first k sentences, 0 if none
LastPageBegun(k) ==
    LET begun == {p \in 1..Len(pdf_data) :
                    \E m \in 1..k :
                        Contains(sentences[m], MarkerOf(pdf_data[p].page_number))}
    IN  IF begun = {} THEN 0 ELSE SetMax(begun)

\* the (section, subsection) left by the markers of pages 1..p
RECURSIVE SectionsThrough(_)
SectionsThrough(p) ==
    IF p = 0 THEN <<None, None>>
    ELSE LET prev == SectionsThrough(p - 1)
         IN  TrackSections(pdf_data[p].sections, prev[1], prev[2])

\* C7: a chunk carries the section and subsection active where it is closed:
\* the markers of the pages begun up to its closing sentence decide its
\* section, subsection, hierarchy level and outline path; markers of later
\* pages do not.
C7_ChunkCarriesSectionAtClose ==
    [][(pc = "loop" /\ Len(chunks') = Len(chunks) + 1) =>
          LET k == IF i < Len(sentences) THEN i + 1 ELSE Len(sentences)
              active == SectionsThrough(LastPageBegun(k))
              loc == chunks'[Len(chunks')].location_metadata
          IN  /\ loc.section = active[1]
              /\ loc.subsection = active[2]
              /\ loc.hierarchy_level = HierarchyLevel(active[1], active[2])
              /\ loc.outline_path = active[1] \o active[2]]_vars

\* no page, or only pages whose text is empty or blank
BlankDocument ==
    \A p \in 1..Len(pdf_data) :
        \A k \in 1..Len(pdf_data[p].text) : pdf_data[p].text[k] \in Whitespace

\* C8: a document whose text is empty or blank yields zero chunks and no
\* error.
C8_BlankDocumentYieldsNoChunks ==
    (pdf_data \in Documents /\ BlankDocument) =>
        /\ pc # "error"
        /\ Returned => chunks = <<>>

\* ref occurs in content, letter case ignored
OccursIn(ref, content) ==
    \E p \in 0..(Len(content) - Len(ref)) :
        \A k \in 1..Len(ref) : LowerChar(content[p + k]) = LowerChar(ref[k])

Occurrences(s, x) == Cardinality({k \in 1..Len(s) : s[k] = x})

\* C9: after the second pass, for distinct chunks a and b, a's id occurs in
\* b's referenced_by_ids once for each string of a's references_to that
\* occurs in b's content with letter case ignored, and no chunk's
\* referenced_by_ids holds the chunk's own id.
C9_ReferencedByCounts ==
    Returned =>
        \A b \in 0..(N - 1) :
            /\ Range(Rel(b).referenced_by_ids) \subseteq (0..(N - 1)) \ {b}
            /\ \A a \in (0..(N - 1)) \ {b} :
                  Occurrences(Rel(b).referenced_by_ids, a)
                      = Cardinality({r \in Rel(a).references_to :
                                        OccursIn(r, chunks[b + 1].content)})

\* "(see Section 2.1)" in a and "Section 2.1" in b, and a reference that is
\* found in another chunk only when case is ignored
C9_Witness ==
    /\ Returned
    /\ \E a \in 0..(N - 1), b \in 0..(N - 1) :
          /\ a # b
          /\ Contains(chunks[a + 1].content,
                      <<"(", "see", " ", "Section", " ", "2", ".", "1", ")">>)
          /\ Contains(chunks[b + 1].content, <<"Section", " ", "2", ".", "1">>)
          /\ Occurrences(Rel(b).referenced_by_ids, a) >= 1
    /\ \E a \in 0..(N - 1), b \in 0..(N - 1) :
          /\ a # b
          /\ \E r \in Rel(a).references_to :
                OccursIn(r, chunks[b + 1].content)
                    /\ ~Contains(chunks[b + 1].content, r)
          /\ Occurrences(Rel(b).referenced_by_ids, a) >= 1

EdgesWhere(Test(_)) == SelectSeq(graph[1].edges, Test)

\* C10: the graph holds one sequential edge c -> next for every chunk with a
\* next, one parent-child edge parent -> c for every chunk with a parent,
\* one reference edge c -> r for each of the first 5 entries r of c's
\* referenced_by_ids, and no other edge.
C10_GraphEdges ==
    pc = "indexed" =>
        /\ \A k \in 1..Len(graph[1].edges) :
              LET e == graph[1].edges[k]
              IN  /\ e.type \in {"sequential", "parent-child", "reference"}
                  /\ (IF e.type = "parent-child" THEN e.to ELSE e.from)
                        \in 0..(N - 1)
        /\ \A c \in 0..(N - 1) :
              /\ EdgesWhere(LAMBDA e : e.type = "sequential" /\ e.from = c)
                    = IF Rel(c).next_chunk_id # None
                      THEN <<[from |-> c, to |-> Rel(c).next_chunk_id[1],
                              type |-> "sequential"]>>
                      ELSE <<>>
              /\ EdgesWhere(LAMBDA e : e.type = "parent-child" /\ e.to = c)
                    = IF Rel(c).parent_chunk_id # None
                      THEN <<[from |-> Rel(c).parent_chunk_id[1], to |-> c,
                              type |-> "parent-child"]>>
                      ELSE <<>>
              /\ EdgesWhere(LAMBDA e : e.type = "reference" /\ e.from = c)
                    = [k \in 1..(IF Len(Rel(c).referenced_by_ids) > 5 THEN 5
                                 ELSE Len(Rel(c).referenced_by_ids)) |->
                          [from |-> c, to |-> Rel(c).referenced_by_ids[k],
                           type |-> "reference"]]

\* a chunk with more than 5 inbound references and a chunk with a parent
C10_Witness ==
    /\ pc = "indexed"
    /\ \E c \in 0..(N - 1) :
          /\ Len(Rel(c).referenced_by_ids) > 5
          /\ Len(EdgesWhere(LAMBDA e : e.type = "reference" /\ e.from = c)) = 5
    /\ \E c \in 0..(N - 1) :
          /\ Rel(c).parent_chunk_id # None
          /\ Len(EdgesWhere(LAMBDA e : e.type = "parent-child" /\ e.to = c)) = 1

\* C11: once _build_relationships has returned, create_navigation_graph and
\* every call of query_with_context, failing calls included, leave the chunk
\* list and every field of every chunk as they are, and a query leaves the
\* graph of the index as it is.
C11_ChunksFrozenAfterReturn ==
    [][Returned => /\ chunks' = chunks
                   /\ pc = "indexed" => graph' = graph]_vars

\* a call that returned context chunks and a call that failed
C11_Witness ==
    /\ pc = "indexed"
    /\ query # None
    /\ N >= 3
    /\ \/ result # None /\ Len(result[1]) >= 3
       \/ raised # None

\* the second loop of create_chunks_with_metadata is over
ChunkerDone == pc \notin {"fold", "loop"}

\* the 0-based index of the sentence at which chunk k ends: position_in_doc
\* is i / len(sentences) for a chunk closed at sentence i and 1.0 for the
\* chunk emitted after the last sentence
EndIndex(k) ==
    LET pct == chunks[k + 1].location_metadata.position.percentage_in_doc
    IN  IF pct = 10000 THEN Len(sentences) - 1
        ELSE CHOOSE e \in 0..(Len(sentences) - 1) :
                 Percentage(e, Len(sentences)) = pct

\* sentences a..b joined as the Chunker joins them, outer blanks stripped
SentenceRun(a, b) == Strip(Join(Slice(sentences, a, b + 1)))

\* chunk k is a run of whole sentences that ends at EndIndex(k) and starts no
\* later than the sentence after the end of chunk k - 1
WholeSentences(k) ==
    \E a \in 0..EndIndex(k) :
        /\ chunks[k + 1].content = SentenceRun(a, EndIndex(k))
        /\ a <= (IF k = 0 THEN 0 ELSE EndIndex(k - 1) + 1)

\* the chunks together reach the last sentence; without a chunk every
\* sentence is blank
NoSentenceLost ==
    IF N = 0 THEN \A k \in 1..Len(sentences) : Strip(sentences[k]) = <<>>
    ELSE EndIndex(N - 1) = Len(sentences) - 1

\* the claim as stated: every chunk is a contiguous run of whole sentences,
\* successive chunks end at strictly increasing sentence indices, and the
\* parts past the overlap give every sentence once, in order
C12_StrictlyIncreasingEnds ==
    ChunkerDone =>
        /\ \A k \in 0..(N - 1) : WholeSentences(k)
        /\ \A k \in 0..(N - 2) : EndIndex(k) < EndIndex(k + 1)
        /\ NoSentenceLost

\* C12: every chunk's content is a contiguous run of whole sentences a..b of
\* the split text; the chunks closed inside the loop end at strictly
\* increasing sentence indices, and the trailing chunk ends at the last
\* sentence, which is also the end of the chunk before it when the last
\* sentence closed a chunk (the trailing chunk is then overlap only); the
\* parts past the overlap give every sentence once, in order.
C12_WholeSentenceRuns ==
    ChunkerDone =>
        /\ \A k \in 0..(N - 1) : WholeSentences(k)
        /\ \A k \in 0..(N - 3) : EndIndex(k) < EndIndex(k + 1)
        /\ N >= 2 => EndIndex(N - 2) <= EndIndex(N - 1)
        /\ NoSentenceLost

\* three chunks or more, the last one emitted after a sentence beyond the
\* previous close
C12_Witness ==
    /\ ChunkerDone
    /\ N >= 3
    /\ EndIndex(N - 2) < EndIndex(N - 1)
    /\ chunks[N].content # chunks[N - 1].content

\* C13: whenever the loop closes a chunk at sentence i, the buffer of the
\* next chunk is seeded with exactly the last 5 sentences of the chunk just
\* closed, and with all of its sentences when it holds fewer than 5.
C13_SeedIsLastFiveSentences ==
    [][(pc = "loop" /\ pc' = "loop" /\ Len(chunks') = Len(chunks) + 1) =>
          \E a \in 0..i :
              /\ chunks'[Len(chunks')].content = SentenceRun(a, i)
              /\ current_chunk_text' =
                    Join(Slice(sentences, IF a > i - 4 THEN a ELSE i - 4,
                               i + 1))]_vars

\* the running token count never reaches the threshold inside the loop
BelowThreshold == TokenCount(Join(sentences)) < chunk_size

\* C14: a document that is not blank and whose token count never reaches the
\* threshold yields exactly one chunk; the chunk holds all sentences, has
\* position 1.0 (is_end, neither is_beginning nor is_middle), spans all
\* pages (start_page the first page, end_page the last page), and has no
\* previous and no next chunk.
C14_SingleChunkDocument ==
    (Returned /\ pdf_data \in Documents /\ ~BlankDocument /\ BelowThreshold) =>
        /\ N = 1
        /\ chunks[1].content = SentenceRun(0, Len(sentences) - 1)
        /\ LET loc == chunks[1].location_metadata
           IN  /\ loc.position.percentage_in_doc = 10000
               /\ loc.position.is_end
               /\ ~loc.position.is_beginning
               /\ ~loc.position.is_middle
               /\ loc.start_page = pdf_data[1].page_number
               /\ loc.end_page = pdf_data[Len(pdf_data)].page_number
        /\ Rel(0).previous_chunk_id = None
        /\ Rel(0).next_chunk_id = None

\* the chunk at list position k of cs has its first-pass metadata
HasRel(cs, k) == "relationship_metadata" \in DOMAIN cs[k]

\* every chunk's referenced_by_ids holds what the whole second pass appends
Pass2Complete ==
    \A a \in 0..(N - 1), b \in 0..(N - 1) :
        a # b =>
            Occurrences(Rel(b).referenced_by_ids, a)
                = Cardinality({r \in Rel(a).references_to :
                                  OccursIn(r, chunks[b + 1].content)})

\* C15: the stages of process_document are ordered: once a chunk carries
\* relationship_metadata the Chunker emits no further chunk; an id is
\* appended to a referenced_by_ids only when every chunk has its first-pass
\* metadata; and the graph is built only when the second pass is complete
\* for all chunks.
C15_StagesOrdered ==
    [][/\ (\E k \in 1..Len(chunks) : HasRel(chunks, k)) =>
              Len(chunks') = Len(chunks)
       /\ (\E k \in 1..Len(chunks) : HasRel(chunks', k)) => ChunkerDone
       /\ (\E k \in 1..Len(chunks) :
              /\ HasRel(chunks, k)
              /\ chunks'[k].relationship_metadata.referenced_by_ids
                    # chunks[k].relationship_metadata.referenced_by_ids) =>
              \A k \in 1..Len(chunks) : HasRel(chunks, k)
       /\ graph' # graph =>
              /\ \A k \in 1..Len(chunks) : HasRel(chunks, k)
              /\ Pass2Complete]_vars

\* the graph is built and a chunk past the first is referenced by another
C15_Witness ==
    /\ pc = "indexed"
    /\ graph # None
    /\ N >= 3
    /\ \E a \in 1..(N - 1), b \in 0..(N - 1) :
          a \in Range(Rel(b).referenced_by_ids)

\* C16: within one run of create_chunks_with_metadata every chunk carries
\* the section, the subsection and the hierarchy_level left by the fold over
\* all pages; hence after _build_relationships every chunk has
\* parent_chunk_id None and no child_chunk_ids, and the graph has no
\* parent-child edge.
C16_OneSectionForAllChunks ==
    pdf_data \in Documents =>
        /\ \A k \in 1..N :
              LET loc == chunks[k].location_metadata
                  last == SectionsThrough(Len(pdf_data))
              IN  /\ loc.section = last[1]
                  /\ loc.subsection = last[2]
                  /\ loc.hierarchy_level = chunks[1].location_metadata.hierarchy_level
        /\ \A k \in 1..N :
              HasRel(chunks, k) =>
                  /\ chunks[k].relationship_metadata.parent_chunk_id = None
                  /\ chunks[k].relationship_metadata.child_chunk_ids = <<>>
        /\ graph # None =>
              \A e \in 1..Len(graph[1].edges) :
                  graph[1].edges[e].type # "parent-child"

\* a document whose pages leave different sections, several chunks, and the
\* graph built
C16_Witness ==
    /\ pc = "indexed"
    /\ N >= 3
    /\ Len(pdf_data) >= 2
    /\ SectionsThrough(1) # SectionsThrough(Len(pdf_data))
    /\ SectionsThrough(1)[1] # None
    /\ Len(graph[1].edges) >= 2

PagesOf(k) == chunks[k].location_metadata.page_numbers

C18_ParentWithinCapIsListedChild ==
    Returned =>
        \A a \in 0..(N - 1), b \in 0..(N - 1) :
            (a < b /\ Rel(b).parent_chunk_id = Some(a) /\ b - a <= ChildLimit) =>
                b \in Range(Rel(a).child_chunk_ids)

\* a parent with a child at distance 5, which it lists, and one at distance
\* 6, which it does not list
C18_Witness ==
    /\ Returned
    /\ \E a \in 0..(N - 1), b \in 0..(N - 1), c \in 0..(N - 1) :
          /\ b - a = ChildLimit
          /\ c - a = ChildLimit + 1
          /\ Rel(b).parent_chunk_id = Some(a)
          /\ Rel(c).parent_chunk_id = Some(a)
          /\ b \in Range(Rel(a).child_chunk_ids)
          /\ c \notin Range(Rel(a).child_chunk_ids)

====
